---- MODULE Spec2Model ----
(***************************************************************************)
(* hemolymph-rs: the card search server.                                   *)
(*                                                                         *)
(* One process holds the card collection in an Arc<RwLock<HashMap<String,  *)
(* Card>>> (src/src/main.rs).  Request handlers (search, view_card,        *)
(* serve_index) take the read lock; a spawned refresh task watches         *)
(* cards.json and replaces the whole map under the write lock.             *)
(*                                                                         *)
(* Text is modelled as sequences of one-character strings so that          *)
(* lower-casing, substring tests, tokenising and rendering are computed.   *)
(* Card ids are opaque strings: the program only hashes and compares them. *)
(* Option<T> is modelled as a set: {} is None, {v} is Some(v).             *)
(***************************************************************************)
EXTENDS Integers, Sequences, FiniteSets, TLC

(***************************************************************************)
(* Size of the model.                                                      *)
(***************************************************************************)
\* pending change notifications the channel of the refresh task may hold
MaxEvents == 1

\* the request handlers that may run at the same time (actix workers)
Workers == {"w1", "w2"}

(***************************************************************************)
(* Text helpers (std::string::String).                                     *)
(***************************************************************************)
ToLowerChar(c) ==
    CASE c = "B" -> "b"
      [] c = "H" -> "h"
      [] c = "I" -> "i"
      [] c = "O" -> "o"
      [] c = "U" -> "u"
      [] OTHER -> c

\* str::to_lowercase
to_lowercase(s) == [i \in 1..Len(s) |-> ToLowerChar(s[i])]

\* str::contains: needle occurs as a contiguous substring of hay
contains(hay, needle) ==
    \E i \in 0..(Len(hay) - Len(needle)) :
        SubSeq(hay, i + 1, i + Len(needle)) = needle

Unwrap(o) == CHOOSE v \in o : TRUE

\* the elements of a sequence
Range(s) == {s[i] : i \in 1..Len(s)}

(***************************************************************************)
(* Card schema (src/src/cards.rs).                                         *)
(***************************************************************************)
\* CardID: a partial card, every field optional
CardID(name, type, health, defense, power, kins, keywords) ==
    [name |-> name, description |-> {}, keywords |-> keywords, type |-> type,
     kins |-> kins, health |-> health, defense |-> defense, power |-> power,
     abilities |-> {}, functions |-> {}]

NoCardID == CardID({}, {}, {}, {}, {}, {}, {})

\* KeywordData::CardID(..) and KeywordData::String(..), tagged by "type"
KeywordDataCardID(p) == [tag |-> "CardID", text |-> <<>>, pattern |-> p]

KeywordDataString(s) == [tag |-> "String", text |-> s, pattern |-> NoCardID]

\* Keyword: a name and optional data
Keyword(name, data) == [name |-> name, data |-> data]

\* Card: the serde defaults leave the list fields empty
Card(id, name, description, type, cost, health, defense, power, kins, keywords) ==
    [id |-> id, name |-> name, img |-> <<>>, description |-> description,
     cost |-> cost, health |-> health, defense |-> defense, power |-> power,
     type |-> type, keywords |-> keywords, kins |-> kins, abilities |-> <<>>,
     artists |-> <<>>, set |-> "core", legality |-> <<>>, other |-> <<>>,
     functions |-> <<>>]

sUnit == <<"U", "n", "i", "t">>
sBeast == <<"B", "e", "a", "s", "t">>
sSummon == <<"s", "u", "m", "m", "o", "n">>
sFly == <<"f", "l", "y">>

\* the keyword "summon" pointing at the cards of type Unit with power 5
SummonUnit5 == Keyword(sSummon, {KeywordDataCardID(
                   CardID({}, {sUnit}, {}, {}, {5}, {}, {}))})

Ox == Card("a", <<"O", "x">>, <<"b", "i", "g">>, sUnit, 3, 2, 0, 5,
           <<sBeast>>, <<>>)

\* a second record with the id of Ox
OxOld == Card("a", <<"O", "x">>, <<"o", "l", "d">>, sUnit, 2, 2, 0, 5,
              <<sBeast>>, <<>>)

Imp == Card("b", <<"I", "m", "p">>, <<>>, sUnit, 1, 1, 0, 1, <<>>,
            <<SummonUnit5, Keyword(sFly, {KeywordDataString(<<"u", "p">>)})>>)

\* bears the pattern and satisfies it itself
Hex == Card("c", <<"H", "e", "x">>, <<>>, sUnit, 3, 1, 1, 5, <<>>,
            <<SummonUnit5>>)

(***************************************************************************)
(* cards.json: unreadable, not a card list, or a list of cards.            *)
(***************************************************************************)
FileMissing == [kind |-> "missing", cards |-> <<>>]

FileGarbage == [kind |-> "garbage", cards |-> <<>>]

FileCards(list) == [kind |-> "cards", cards |-> list]

\* one list with an id twice, one where only Imp has a card backing its keyword
ValidFiles == {FileCards(<<Ox, OxOld, Hex>>), FileCards(<<Hex, Imp>>)}

FileContents == ValidFiles \cup {FileGarbage, FileMissing}

\* fs::read_to_string("cards.json"): Err when the file cannot be read
read_to_string(f) == [ok |-> f.kind # "missing", data |-> f]

\* a deserializer that takes whatever it cannot read for an empty list
from_str_lenient(data) == [ok |-> TRUE, cards |-> data.cards]

\* serde_json::from_str::<Vec<Card>>: Err unless the text is a card list
from_str(data) == [ok |-> data.kind = "cards", cards |-> data.cards]

(***************************************************************************)
(* HashMap<String, Card>: a sequence of entries in iteration order.        *)
(***************************************************************************)
Entry(k, v) == [key |-> k, value |-> v]

\* an insert that keeps the entry already stored under the key
HashMapInsertAppend(m, k, v) == Append(m, Entry(k, v))

\* HashMap::insert: an entry with the key is overwritten
HashMapInsert(m, k, v) ==
    IF \E i \in 1..Len(m) : m[i].key = k
    THEN [i \in 1..Len(m) |-> IF m[i].key = k THEN Entry(k, v) ELSE m[i]]
    ELSE Append(m, Entry(k, v))

\* HashMap::get
HashMapGet(m, k) == {m[i].value : i \in {j \in 1..Len(m) : m[j].key = k}}

\* HashMap::values, in the iteration order of this map
Values(m) == [i \in 1..Len(m) |-> m[i].value]

\* a key taken from the edition of the card instead of its id
CardKeyBySet(x) == x.set

\* the key under which create_card_map stores a card: x.id.clone()
CardKey(x) == x.id

RECURSIVE Collect(_, _)
\* Iterator::collect into a HashMap: the pairs are inserted in order
Collect(vec, m) ==
    IF vec = <<>> THEN m
    ELSE Collect(Tail(vec), HashMapInsert(m, CardKey(Head(vec)), Head(vec)))

\* the iteration orders a map holding the entries of m may have: the order of
\* a std HashMap depends on the per-instance RandomState
IterationOrders(m) ==
    {[i \in 1..Len(m) |-> m[p[i]]] : p \in Permutations(1..Len(m))}

\* create_card_map: the maps (one per iteration order) the call may build
create_card_map(vec) == IterationOrders(Collect(vec, <<>>))

(***************************************************************************)
(* Query language: hemoglobin::search::query_parser::query_parser, called  *)
(* at main.rs:173.  A restriction is one record                            *)
(*   [kind, field, op, num, text]                                          *)
(* with kind one of Fuzzy, Comparison, Equals, Contains, SetContains,      *)
(* KeywordNameContains.                                                    *)
(***************************************************************************)
Fuzzy(t) == [kind |-> "Fuzzy", field |-> "", op |-> "", num |-> 0, text |-> t]

Comparison(f, o, n) ==
    [kind |-> "Comparison", field |-> f, op |-> o, num |-> n, text |-> <<>>]

Equals(f, t) == [kind |-> "Equals", field |-> f, op |-> "", num |-> 0, text |-> t]

Contains(f, t) ==
    [kind |-> "Contains", field |-> f, op |-> "", num |-> 0, text |-> t]

SetContains(f, t) ==
    [kind |-> "SetContains", field |-> f, op |-> "", num |-> 0, text |-> t]

KeywordNameContains(t) ==
    [kind |-> "KeywordNameContains", field |-> "", op |-> "", num |-> 0,
     text |-> t]

\* the spelling of the attribute names of the language
FieldSpelling(f) ==
    CASE f = "cost" -> <<"c", "o", "s", "t">>
      [] f = "health" -> <<"h", "e", "a", "l", "t", "h">>
      [] f = "defense" -> <<"d", "e", "f", "e", "n", "s", "e">>
      [] f = "power" -> <<"p", "o", "w", "e", "r">>
      [] f = "type" -> <<"t", "y", "p", "e">>
      [] f = "name" -> <<"n", "a", "m", "e">>
      [] f = "description" ->
             <<"d", "e", "s", "c", "r", "i", "p", "t", "i", "o", "n">>
      [] f = "kins" -> <<"k", "i", "n", "s">>
      [] f = "abilities" -> <<"a", "b", "i", "l", "i", "t", "i", "e", "s">>
      [] f = "functions" -> <<"f", "u", "n", "c", "t", "i", "o", "n", "s">>
      [] f = "other" -> <<"o", "t", "h", "e", "r">>
      [] f = "artists" -> <<"a", "r", "t", "i", "s", "t", "s">>
      [] f = "keyword" -> <<"k", "e", "y", "w", "o", "r", "d">>

NumericFields == {"cost", "health", "defense", "power"}

TextFields == {"type", "name", "description"}

SetFields == {"kins", "abilities", "functions", "other", "artists"}

\* the attribute a token names, "" when the language has no such attribute
FieldOf(word, among) ==
    IF \E f \in among : FieldSpelling(f) = word
    THEN CHOOSE f \in among : FieldSpelling(f) = word
    ELSE ""

DigitValue(c) ==
    CASE c = "0" -> 0 [] c = "1" -> 1 [] c = "2" -> 2 [] c = "3" -> 3
      [] c = "4" -> 4 [] c = "5" -> 5 [] c = "6" -> 6 [] c = "7" -> 7
      [] c = "8" -> 8 [] c = "9" -> 9 [] OTHER -> -1

IsNumber(word) ==
    word # <<>> /\ \A i \in 1..Len(word) : DigitValue(word[i]) >= 0

RECURSIVE NumberValue(_)
NumberValue(word) ==
    IF word = <<>> THEN 0
    ELSE 10 * NumberValue(SubSeq(word, 1, Len(word) - 1))
           + DigitValue(word[Len(word)])

DigitChar(d) == CHOOSE c \in {"0", "1", "2", "3", "4", "5", "6", "7", "8", "9"} :
                    DigitValue(c) = d

RECURSIVE NumberText(_)
NumberText(n) ==
    IF n < 10 THEN <<DigitChar(n)>>
    ELSE NumberText(n \div 10) \o <<DigitChar(n % 10)>>

RECURSIVE Tokenize(_, _, _, _, _)
\* whitespace-separated tokens; a quoted segment keeps its blanks and makes
\* its token a quoted one
Tokenize(text, cur, inQuote, quoted, acc) ==
    LET emit == IF cur # <<>> \/ quoted
                THEN Append(acc, [text |-> cur, quoted |-> quoted])
                ELSE acc
    IN  IF text = <<>> THEN emit
        ELSE IF Head(text) = "\"" 
             THEN Tokenize(Tail(text), cur, ~inQuote, TRUE, acc)
        ELSE IF Head(text) = " " /\ ~inQuote
             THEN Tokenize(Tail(text), <<>>, FALSE, FALSE, emit)
        ELSE Tokenize(Tail(text), Append(cur, Head(text)), inQuote, quoted, acc)

\* the operator starting at position i of a token, "" when there is none
OperatorAt(word, i) ==
    LET c == word[i]
        eq == i < Len(word) /\ word[i + 1] = "="
    IN  CASE c = "!" /\ eq -> "!="
          [] c = ">" /\ eq -> ">="
          [] c = "<" /\ eq -> "<="
          [] c = ">" -> ">"
          [] c = "<" -> "<"
          [] c = "=" -> "="
          [] OTHER -> ""

OperatorLength(o) == IF o \in {"!=", ">=", "<="} THEN 2 ELSE 1

ParseOk(r) == [ok |-> TRUE, error |-> "", restriction |-> r]

ParseErr(e) == [ok |-> FALSE, error |-> e, restriction |-> Fuzzy(<<>>)]

\* one token: field<op>value, then field:value, then a fuzzy term
ClassifyToken(tok) ==
    LET word == tok.text
        ops == {i \in 1..Len(word) : OperatorAt(word, i) # ""}
        colons == {i \in 1..Len(word) : word[i] = ":"}
    IN  IF tok.quoted THEN ParseOk(Fuzzy(word))
        ELSE IF ops # {}
        THEN LET i == CHOOSE j \in ops : \A k \in ops : j <= k
                 o == OperatorAt(word, i)
                 f == FieldOf(SubSeq(word, 1, i - 1), NumericFields \cup TextFields)
                 v == SubSeq(word, i + OperatorLength(o), Len(word))
             IN  IF f = "" THEN ParseErr("UnknownField")
                 ELSE IF f \in NumericFields
                 THEN IF IsNumber(v) THEN ParseOk(Comparison(f, o, NumberValue(v)))
                      ELSE ParseErr("InvalidNumber")
                 ELSE IF o = "=" THEN ParseOk(Equals(f, v))
                 ELSE ParseOk(Contains(f, v))
        ELSE IF colons # {}
        THEN LET i == CHOOSE j \in colons : \A k \in colons : j <= k
                 f == FieldOf(SubSeq(word, 1, i - 1),
                              SetFields \cup TextFields \cup {"keyword"})
                 v == SubSeq(word, i + 1, Len(word))
             IN  IF f = "" THEN ParseErr("UnknownField")
                 ELSE IF f = "keyword" THEN ParseOk(KeywordNameContains(v))
                 ELSE IF f \in SetFields THEN ParseOk(SetContains(f, v))
                 ELSE ParseOk(Contains(f, v))
        ELSE ParseOk(Fuzzy(word))

\* query_parser: Ok(restrictions) or the first error; the query fails whole
query_parser(text) ==
    LET toks == Tokenize(text, <<>>, FALSE, FALSE, <<>>)
        each == [i \in 1..Len(toks) |-> ClassifyToken(toks[i])]
        bad == {i \in 1..Len(toks) : ~each[i].ok}
    IN  IF bad = {}
        THEN [ok |-> TRUE, error |-> "",
              restrictions |-> [i \in 1..Len(toks) |-> each[i].restriction]]
        ELSE [ok |-> FALSE,
              error |-> each[CHOOSE j \in bad : \A k \in bad : j <= k].error,
              restrictions |-> <<>>]

\* Display of one restriction
RenderRestriction(r) ==
    CASE r.kind = "Comparison" ->
             FieldSpelling(r.field) \o
             (CASE r.op = "!=" -> <<"!", "=">> [] r.op = ">=" -> <<">", "=">>
                [] r.op = "<=" -> <<"<", "=">> [] OTHER -> <<r.op>>) \o
             NumberText(r.num)
      [] r.kind = "Equals" -> FieldSpelling(r.field) \o <<"=">> \o r.text
      [] r.kind \in {"Contains", "SetContains"} ->
             FieldSpelling(r.field) \o <<":">> \o r.text
      [] r.kind = "KeywordNameContains" ->
             FieldSpelling("keyword") \o <<":">> \o r.text
      [] OTHER ->
             IF r.text = <<>> \/ \E i \in 1..Len(r.text) : r.text[i] = " "
             THEN <<"\"">> \o r.text \o <<"\"">>
             ELSE r.text

RECURSIVE Render(_)
\* Display of a restriction sequence: format!("{query_restrictions}")
Render(rs) ==
    IF rs = <<>> THEN <<>>
    ELSE IF Len(rs) = 1 THEN RenderRestriction(rs[1])
    ELSE RenderRestriction(rs[1]) \o <<" ">> \o Render(Tail(rs))

(***************************************************************************)
(* Card accessors (src/src/cards.rs) and the text filter of                *)
(* src/src/search.rs.                                                      *)
(***************************************************************************)
\* Card::get_cost, get_health, get_power, get_defense
NumericAttribute(card, f) ==
    CASE f = "cost" -> card.cost
      [] f = "health" -> card.health
      [] f = "defense" -> card.defense
      [] f = "power" -> card.power

\* Card::get_name, get_type and the description field
TextAttribute(card, f) ==
    CASE f = "name" -> card.name
      [] f = "type" -> card.type
      [] f = "description" -> card.description

\* Card::get_kins and the other list fields
SetAttribute(card, f) ==
    CASE f = "kins" -> card.kins
      [] f = "abilities" -> card.abilities
      [] f = "functions" -> card.functions
      [] f = "other" -> card.other
      [] f = "artists" -> card.artists

\* fuzzy_search: query is the Option<String> of the request; the text is
\* looked for, lower-cased, in the description and in the name
fuzzy_search(card, query) ==
    IF query = {} THEN FALSE
    ELSE \/ contains(to_lowercase(card.description), to_lowercase(Unwrap(query)))
         \/ contains(to_lowercase(card.name), to_lowercase(Unwrap(query)))

(***************************************************************************)
(* Restriction evaluator: hemoglobin::search::search, called at            *)
(* main.rs:175.                                                            *)
(***************************************************************************)
Compare(a, o, b) ==
    CASE o = ">" -> a > b
      [] o = "<" -> a < b
      [] o = "=" -> a = b
      [] o = "!=" -> a # b
      [] o = ">=" -> a >= b
      [] o = "<=" -> a <= b

\* the restriction sequence a partial card pattern stands for: equality for
\* name and type, numeric equality for the stats, membership for each listed
\* element, and the names of the nested keywords
PatternRestrictions(p) ==
    LET opt(o, r(_)) == IF o = {} THEN <<>> ELSE <<r(Unwrap(o))>>
        each(o, r(_)) == IF o = {} THEN <<>>
                         ELSE [i \in 1..Len(Unwrap(o)) |-> r(Unwrap(o)[i])]
        nameR(v) == Equals("name", v)
        descR(v) == Contains("description", v)
        typeR(v) == Equals("type", v)
        healthR(v) == Comparison("health", "=", v)
        defenseR(v) == Comparison("defense", "=", v)
        powerR(v) == Comparison("power", "=", v)
        kinR(v) == SetContains("kins", v)
        abilityR(v) == SetContains("abilities", v)
        functionR(v) == SetContains("functions", v)
        keywordR(k) == KeywordNameContains(k.name)
    IN  opt(p.name, nameR) \o opt(p.description, descR) \o opt(p.type, typeR)
        \o opt(p.health, healthR) \o opt(p.defense, defenseR)
        \o opt(p.power, powerR) \o each(p.kins, kinR)
        \o each(p.abilities, abilityR) \o each(p.functions, functionR)
        \o each(p.keywords, keywordR)

\* the card pattern of a keyword, {} when its data is absent or a string
KeywordPattern(k) ==
    IF k.data # {} /\ Unwrap(k.data).tag = "CardID"
    THEN {Unwrap(k.data).pattern}
    ELSE {}

RECURSIVE matches_at(_, _, _, _)
\* one card against a restriction sequence; expand is FALSE inside a pattern,
\* where the keywords of the referenced cards are not expanded again
matches_at(card, restrictions, collection, expand) ==
    \A n \in 1..Len(restrictions) :
        LET r == restrictions[n]
        IN  CASE r.kind = "Fuzzy" -> fuzzy_search(card, {r.text})
              [] r.kind = "Comparison" ->
                     Compare(NumericAttribute(card, r.field), r.op, r.num)
              [] r.kind = "Equals" -> TextAttribute(card, r.field) = r.text
              [] r.kind = "Contains" ->
                     contains(to_lowercase(TextAttribute(card, r.field)),
                              to_lowercase(r.text))
              [] r.kind = "SetContains" ->
                     r.text \in Range(SetAttribute(card, r.field))
              [] r.kind = "KeywordNameContains" ->
                     \E i \in 1..Len(card.keywords) :
                         LET k == card.keywords[i]
                         IN  /\ contains(to_lowercase(k.name), to_lowercase(r.text))
                             /\ \/ KeywordPattern(k) = {}
                                \/ ~expand
                                \/ \E j \in 1..Len(collection) :
                                       /\ collection[j].id # card.id
                                       /\ matches_at(collection[j],
                                              PatternRestrictions(
                                                  Unwrap(KeywordPattern(k))),
                                              collection, FALSE)

\* an evaluator that is content with one restriction holding
matches_any(card, restrictions, collection) ==
    \E n \in 1..Len(restrictions) :
        matches_at(card, <<restrictions[n]>>, collection, TRUE)

\* an evaluator that lets a card back the pattern of its own keyword
matches_self(card, restrictions, collection) ==
    matches_at(card, restrictions,
               Append(collection, [card EXCEPT !.id = "self"]), TRUE)

\* matches(card, restrictions, collection): every restriction must hold
matches(card, restrictions, collection) ==
    matches_at(card, restrictions, collection, TRUE)

(***************************************************************************)
(* Ranker.  Similarities are in 0..SimilarityScale and the weights are     *)
(* the weights of the design times ten, so that scores are integers.       *)
(***************************************************************************)
SimilarityScale == 60

WeightName == 20

WeightType == 18

WeightDescription == 16

WeightKin == 15

WeightKeyword == 12

\* normalised similarity of the query text and one text of the card
Similarity(q, s) ==
    LET a == to_lowercase(q)
        b == to_lowercase(s)
    IN  IF a = <<>> \/ b = <<>> THEN 0
        ELSE IF a = b THEN SimilarityScale
        ELSE IF contains(b, a) THEN (SimilarityScale * Len(a)) \div Len(b)
        ELSE 0

\* the best similarity among the elements of a list, 0 for an empty list
BestSimilarity(q, list) ==
    LET all == {Similarity(q, list[i]) : i \in 1..Len(list)} \cup {0}
    IN  CHOOSE m \in all : \A x \in all : x <= m

RECURSIVE JoinWords(_)
JoinWords(words) ==
    IF words = <<>> THEN <<>>
    ELSE IF Len(words) = 1 THEN words[1]
    ELSE words[1] \o <<" ">> \o JoinWords(Tail(words))

\* the free text of a query: its fuzzy terms
FuzzyText(restrictions) ==
    JoinWords(SelectSeq([i \in 1..Len(restrictions) |->
                            IF restrictions[i].kind = "Fuzzy"
                            THEN restrictions[i].text ELSE <<>>],
                        LAMBDA t : t # <<>>))

score(card, queryText) ==
    WeightName * Similarity(queryText, card.name)
    + WeightType * Similarity(queryText, card.type)
    + WeightDescription * Similarity(queryText, card.description)
    + WeightKin * BestSimilarity(queryText, card.kins)
    + WeightKeyword * BestSimilarity(queryText,
          [i \in 1..Len(card.keywords) |-> card.keywords[i].name])

\* c is put behind every card scoring at least as much: a stable sort
InsertRanked(sorted, c, queryText) ==
    LET ahead == {i \in 1..Len(sorted) :
                     score(sorted[i], queryText) >= score(c, queryText)}
        n == IF ahead = {} THEN 0 ELSE CHOOSE i \in ahead : \A j \in ahead : j <= i
    IN  SubSeq(sorted, 1, n) \o <<c>> \o SubSeq(sorted, n + 1, Len(sorted))

RECURSIVE RankInto(_, _, _)
RankInto(sorted, rest, queryText) ==
    IF rest = <<>> THEN sorted
    ELSE RankInto(InsertRanked(sorted, Head(rest), queryText), Tail(rest),
                  queryText)

\* rank: descending score, ties in input order
rank(found, queryText) == RankInto(<<>>, found, queryText)

\* hemoglobin::search::search over the values of one map, in one piece
search_all(restrictions, values) ==
    rank(SelectSeq(values, LAMBDA c : matches(c, restrictions, values)),
         FuzzyText(restrictions))

(***************************************************************************)
(* Requests and responses (src/src/main.rs).                               *)
(***************************************************************************)
qX == <<"x">>

\* "cost>1 x"
qCostX == FieldSpelling("cost") \o <<">", "1", " ">> \o qX

qKeywordSummon == FieldSpelling("keyword") \o <<":">> \o sSummon

qWisdom == <<"w", "i", "s", "d", "o", "m", ">", "3">>

\* QueryParams.query of the requests: absent, empty, and some texts
Queries == {{}, {<<>>}, {qKeywordSummon}, {qWisdom}, {qCostX}}

\* IdViewParam.id of the requests
Ids == {"c", "zz"}

\* the request paths: their components (Path::iter) and their extension
Paths == {[components |-> <<"/">>, extension |-> ""],
          [components |-> <<"/", "card", "a">>, extension |-> ""],
          [components |-> <<"/", "pkg", "app.js">>, extension |-> "js"],
          [components |-> <<"/", "app.wasm">>, extension |-> "wasm"]}

NoPath == [components |-> <<>>, extension |-> ""]

NoParse == [ok |-> FALSE, error |-> "", restrictions |-> <<>>]

Response(type, message, queryText, content, card, body) ==
    [type |-> type, message |-> message, query_text |-> queryText,
     content |-> content, card |-> card, body |-> body]

NoResponse == Response("none", <<>>, <<>>, <<>>, {}, <<>>)

\* QueryResult::CardList { query_text, content }
CardList(queryText, content) ==
    Response("CardList", <<>>, queryText, content, {}, <<>>)

\* QueryResult::Error { message }
Error(message) == Response("Error", message, <<>>, <<>>, {}, <<>>)

\* a handler that takes a missing parameter for a text that does not parse
QueryTextRequired(query) == IF query = {} THEN <<"?", ":">> ELSE Unwrap(query)

\* query.query.clone().unwrap_or_default()
QueryText(query) == IF query = {} THEN <<>> ELSE Unwrap(query)

\* a handler that falls back to the text filter on the raw query
ParseFailureFallback(text, error, values) ==
    CardList(text, SelectSeq(values, LAMBDA c : fuzzy_search(c, {text})))

\* the response of search to a query that did not parse
ParseFailure(text, error, values) ==
    Error(<<"Query couldn't be parsed: ", error>>)

RECURSIVE Replace(_, _, _)
\* str::replace
Replace(s, from, to) ==
    IF Len(s) < Len(from) THEN s
    ELSE IF SubSeq(s, 1, Len(from)) = from
         THEN to \o Replace(SubSeq(s, Len(from) + 1, Len(s)), from, to)
         ELSE <<Head(s)>> \o Replace(Tail(s), from, to)

get_filegarden_link(name) ==
    <<"https://file.garden/ZJSEzoaUL3bz8vYK/bloodlesscards/">>
    \o Replace(Replace(name, <<" ">>, <<>>), <<"Ã", "¤">>, <<"a">>)
    \o <<".png">>

\* path.iter().nth(2).and_then(|x| cards.get(x).cloned())
card_details(path, m) ==
    IF Len(path.components) >= 3 THEN HashMapGet(m, path.components[3]) ELSE {}

(***************************************************************************)
(* State.                                                                  *)
(***************************************************************************)
VARIABLES
    file,    \* the contents of cards.json
    rx,      \* change notifications sent by the debouncer and not yet received
    cards,   \* AppState.cards: the map inside the RwLock
    rpc,     \* where the refresh task is: poll, read, write_wait, sleep, dead
    rdata,   \* the Vec<Card> the refresh task has parsed and not yet stored
    rlog,    \* what the current turn of the refresh loop did
    hw       \* the request handlers

vars == <<file, rx, cards, rpc, rdata, rlog, hw>>

Idle == [pc |-> "idle", kind |-> "none", query |-> {}, id |-> "",
         path |-> NoPath, parsed |-> NoParse, idx |-> 0, found |-> <<>>,
         seen |-> <<>>, details |-> {}, resp |-> NoResponse]

\* the handlers holding a read guard
Readers == {w \in Workers : hw[w].pc # "idle"}

\* tokio RwLock::read: granted unless a writer holds the lock or is queued for
\* it (the lock is fair: a queued writer goes before later readers)
CanRead == rpc # "write_wait"

\* a write that does not wait for the read guards
CanWriteUnguarded == TRUE

\* tokio RwLock::write: granted once no read guard is alive
CanWrite == Readers = {}

\* fs::read_to_string, serde_json::from_str, create_card_map at start-up;
\* both expect() calls have passed
Init ==
    /\ file \in ValidFiles
    /\ cards \in create_card_map(from_str(read_to_string(file).data).cards)
    /\ rx = 0
    /\ rpc = "poll"
    /\ rdata = <<>>
    /\ rlog = "none"
    /\ hw = [w \in Workers |-> Idle]

(***************************************************************************)
(* The environment: cards.json is rewritten and the debouncer notifies.    *)
(***************************************************************************)
FileChange(f) ==
    /\ f # file
    /\ rx < MaxEvents
    /\ file' = f
    /\ rx' = rx + 1
    /\ UNCHANGED <<cards, rpc, rdata, rlog, hw>>

(***************************************************************************)
(* The refresh task (main.rs:125-149).                                     *)
(***************************************************************************)
\* rx.try_recv(): Ok(_) goes on to read the file, Empty goes to sleep
Poll ==
    /\ rpc = "poll"
    /\ IF rx > 0
       THEN rx' = rx - 1 /\ rpc' = "read"
       ELSE rx' = rx /\ rpc' = "sleep"
    /\ UNCHANGED <<file, cards, rdata, rlog, hw>>

\* fs::read_to_string(..).expect(..) and serde_json::from_str: an unreadable
\* file panics the task, a file that is no card list is logged
ReadFile ==
    /\ rpc = "read"
    /\ LET r == read_to_string(file)
           p == from_str(r.data)
       IN  IF ~r.ok
           THEN rpc' = "dead" /\ rlog' = "panic" /\ rdata' = rdata
           ELSE IF p.ok
           THEN rpc' = "write_wait" /\ rlog' = rlog /\ rdata' = p.cards
           ELSE rpc' = "sleep" /\ rlog' = "parse_error" /\ rdata' = rdata
    /\ UNCHANGED <<file, rx, cards, hw>>

\* let mut cards = cards_pointer.write().await; *cards = create_card_map(data);
Swap ==
    /\ rpc = "write_wait"
    /\ CanWrite
    /\ cards' \in create_card_map(rdata)
    /\ rdata' = <<>>
    /\ rlog' = "applied"
    /\ rpc' = "sleep"
    /\ UNCHANGED <<file, rx, hw>>

\* sleep(Duration::from_secs(0)).await, then the next turn of the loop
Sleep ==
    /\ rpc = "sleep"
    /\ rpc' = "poll"
    /\ rlog' = "none"
    /\ UNCHANGED <<file, rx, cards, rdata, hw>>

(***************************************************************************)
(* search (main.rs:169-191).                                               *)
(***************************************************************************)
\* the read guard is taken and the query text parsed; a query that does not
\* parse is answered at once
SearchStart(w, query) ==
    /\ hw[w].pc = "idle"
    /\ CanRead
    /\ LET text == QueryText(query)
           p == query_parser(text)
           base == [Idle EXCEPT !.kind = "search", !.query = query,
                                !.parsed = p, !.seen = cards]
       IN  hw' = [hw EXCEPT ![w] =
                    IF p.ok THEN [base EXCEPT !.pc = "scan"]
                    ELSE [base EXCEPT !.pc = "done",
                            !.resp = ParseFailure(text, p.error, Values(cards))]]
    /\ UNCHANGED <<file, rx, cards, rpc, rdata, rlog>>

\* hemoglobin::search::search visits the next value of the map
SearchScan(w) ==
    /\ hw[w].pc = "scan"
    /\ hw[w].idx < Len(cards)
    /\ LET c == cards[hw[w].idx + 1].value
       IN  hw' = [hw EXCEPT ![w].idx = @ + 1,
                            ![w].found =
                                IF matches(c, hw[w].parsed.restrictions,
                                           Values(cards))
                                THEN Append(@, c) ELSE @]
    /\ UNCHANGED <<file, rx, cards, rpc, rdata, rlog>>

\* the scan is over: the cards found are ranked and the CardList is built
SearchRespond(w) ==
    /\ hw[w].pc = "scan"
    /\ hw[w].idx >= Len(cards)
    /\ hw' = [hw EXCEPT ![w].pc = "done",
                ![w].resp = CardList(Render(hw[w].parsed.restrictions),
                                rank(hw[w].found,
                                     FuzzyText(hw[w].parsed.restrictions)))]
    /\ UNCHANGED <<file, rx, cards, rpc, rdata, rlog>>

(***************************************************************************)
(* view_card (main.rs:193-202).                                            *)
(***************************************************************************)
ViewCard(w, id) ==
    /\ hw[w].pc = "idle"
    /\ CanRead
    /\ LET results == HashMapGet(cards, id)
       IN  hw' = [hw EXCEPT ![w] =
                    [Idle EXCEPT !.pc = "done", !.kind = "view_card",
                        !.id = id, !.seen = cards,
                        !.resp = IF results # {}
                                 THEN Response("Card", <<>>, <<>>, <<>>,
                                               results, <<>>)
                                 ELSE Response("oops", <<>>, <<>>, <<>>, {},
                                               <<"oops">>)]]
    /\ UNCHANGED <<file, rx, cards, rpc, rdata, rlog>>

(***************************************************************************)
(* serve_index (main.rs:48-100).  distOk says whether the file under dist/ *)
(* can be read.                                                            *)
(***************************************************************************)
ServeIndex(w, path, distOk) ==
    /\ hw[w].pc = "idle"
    /\ CanRead
    /\ LET base == [Idle EXCEPT !.kind = "serve_index", !.path = path,
                                !.seen = cards,
                                !.details = card_details(path, cards)]
       IN  hw' = [hw EXCEPT ![w] =
                    IF ~distOk
                    THEN [base EXCEPT !.pc = "done",
                            !.resp = Response("io_error", <<>>, <<>>, <<>>, {},
                                              <<>>)]
                    ELSE IF path.extension \in {"js", "wasm"}
                    THEN [base EXCEPT !.pc = "done",
                            !.resp = Response(path.extension, <<>>, <<>>, <<>>,
                                              {}, path.components)]
                    ELSE [base EXCEPT !.pc = "render"]]
    /\ UNCHANGED <<file, rx, cards, rpc, rdata, rlog>>

\* spawn_blocking(..).await has rendered the page; the read guard is alive
ServeRendered(w) ==
    /\ hw[w].pc = "render"
    /\ LET d == hw[w].details
           description == IF d # {} THEN Unwrap(d).description
                          ELSE <<"A search engine for Bloodless cards.">>
           ogimage == IF d # {} THEN get_filegarden_link(Unwrap(d).name)
                      ELSE <<>>
       IN  hw' = [hw EXCEPT ![w].pc = "done",
                    ![w].resp = Response("html", description, <<>>, <<>>, {},
                                         ogimage)]
    /\ UNCHANGED <<file, rx, cards, rpc, rdata, rlog>>

\* the handler returns: the response is sent and the read guard dropped
Finish(w) ==
    /\ hw[w].pc = "done"
    /\ hw' = [hw EXCEPT ![w] = Idle]
    /\ UNCHANGED <<file, rx, cards, rpc, rdata, rlog>>

Next ==
    \/ \E f \in FileContents : FileChange(f)
    \/ Poll
    \/ ReadFile
    \/ Swap
    \/ Sleep
    \/ \E w \in Workers, q \in Queries : SearchStart(w, q)
    \/ \E w \in Workers : SearchScan(w)
    \/ \E w \in Workers : SearchRespond(w)
    \/ \E w \in Workers, id \in Ids : ViewCard(w, id)
    \/ \E w \in Workers, p \in Paths, ok \in BOOLEAN : ServeIndex(w, p, ok)
    \/ \E w \in Workers : ServeRendered(w)
    \/ \E w \in Workers : Finish(w)

Spec == Init /\ [][Next]_vars

\* the steps of the liveness specification: those of Next, with one request
\* of each kind
FairNext ==
    \/ \E f \in FileContents : FileChange(f)
    \/ Poll
    \/ ReadFile
    \/ Swap
    \/ Sleep
    \/ \E w \in Workers : SearchStart(w, {})
    \/ \E w \in Workers : SearchScan(w)
    \/ \E w \in Workers : SearchRespond(w)
    \/ \E w \in Workers : ViewCard(w, "a")
    \/ \E w \in Workers : ServeIndex(w, [components |-> <<"/", "card", "a">>,
                                         extension |-> ""], TRUE)
    \/ \E w \in Workers : ServeRendered(w)
    \/ \E w \in Workers : Finish(w)

\* the scheduler runs every task that can take a step: the refresh task and
\* the handlers under way; no request and no file change is ever required
FairSpec ==
    /\ Init
    /\ [][FairNext]_vars
    /\ WF_vars(Poll)
    /\ WF_vars(ReadFile)
    /\ WF_vars(Swap)
    /\ WF_vars(Sleep)
    /\ \A w \in Workers :
           WF_vars(SearchScan(w) \/ SearchRespond(w) \/ ServeRendered(w)
                   \/ Finish(w))

(***************************************************************************)
(* Properties.                                                             *)
(***************************************************************************)
Searching(w) == hw[w].kind = "search" /\ hw[w].pc \in {"scan", "done"}

Answered(w, kind) == hw[w].kind = kind /\ hw[w].pc = "done"

CardsOf(m) == Range(Values(m))

\* C1: a search works on one loaded version of the collection.  While it is
\* under way the map is the one it found when it took the read guard, what it
\* has found so far comes from that map, and its answer is the answer of the
\* whole search on that map: a refresh that has parsed new data meanwhile
\* changes nothing of it.
SearchSeesOneVersion ==
    \A w \in Workers :
        Searching(w) =>
            /\ cards = hw[w].seen
            /\ Range(hw[w].found) \subseteq CardsOf(hw[w].seen)
            /\ (hw[w].pc = "done" /\ hw[w].parsed.ok) =>
                   hw[w].resp.content =
                       search_all(hw[w].parsed.restrictions, Values(hw[w].seen))

\* a search has answered with cards while the refresh task holds a different
\* card list and waits for the write lock
SearchDuringRefresh ==
    \E w \in Workers :
        /\ Answered(w, "search")
        /\ hw[w].resp.type = "CardList"
        /\ Len(hw[w].resp.content) >= 2
        /\ rpc = "write_wait"
        /\ hw[w].seen \notin create_card_map(rdata)

\* C2: view_card answers with the card whose id is the one asked for when the
\* collection holds such a card, and with the not-found body when it holds
\* none; the card it answers with never has another id.
LookupById ==
    \A w \in Workers :
        Answered(w, "view_card") =>
            LET present == {c \in CardsOf(cards) : c.id = hw[w].id}
            IN  IF present # {}
                THEN /\ hw[w].resp.type = "Card"
                     /\ hw[w].resp.card = present
                     /\ Cardinality(present) = 1
                ELSE /\ hw[w].resp.type = "oops"
                     /\ hw[w].resp.card = {}

\* one lookup has found its card while another has found none
LookupHitAndMiss ==
    \E v, w \in Workers :
        /\ Answered(v, "view_card") /\ hw[v].resp.type = "Card"
        /\ Answered(w, "view_card") /\ hw[w].resp.type = "oops"
        /\ cards # <<>>

\* C3: a search ends in one of two ways.  A query that does not parse is
\* answered with an Error carrying a message and no card; a query that parses
\* is answered with a CardList of cards of the collection and the rendering
\* of its restrictions.  The collection is the one the search found.
SearchOutcomes ==
    \A w \in Workers :
        Answered(w, "search") =>
            LET p == query_parser(QueryText(hw[w].query))
                r == hw[w].resp
            IN  /\ cards = hw[w].seen
                /\ r.type \in {"CardList", "Error"}
                /\ r.type = "Error" <=> ~p.ok
                /\ ~p.ok => /\ r.message # <<>>
                            /\ r.content = <<>>
                            /\ r.query_text = <<>>
                /\ p.ok => /\ r.message = <<>>
                           /\ r.query_text = Render(p.restrictions)
                           /\ Range(r.content) \subseteq CardsOf(hw[w].seen)

\* one search has been refused for its query while another has listed cards
SearchErrorAndList ==
    \E v, w \in Workers :
        /\ Answered(v, "search") /\ hw[v].resp.type = "Error"
        /\ hw[v].query = {qWisdom}
        /\ Answered(w, "search") /\ hw[w].resp.type = "CardList"
        /\ hw[w].resp.content # <<>>

\* C4: the empty query, sent as an empty text or not sent at all, is no error
\* and lists every card of the collection, each once; every card passes the
\* empty restriction list and the empty text filter.
EmptyQueryListsAll ==
    /\ \A w \in Workers :
           (Answered(w, "search") /\ hw[w].query \in {{}, {<<>>}}) =>
               /\ hw[w].resp.type = "CardList"
               /\ Range(hw[w].resp.content) = CardsOf(hw[w].seen)
               /\ Len(hw[w].resp.content) = Len(hw[w].seen)
    /\ \A c \in CardsOf(cards) :
           /\ query_parser(<<>>).ok
           /\ matches(c, query_parser(<<>>).restrictions, Values(cards))
           /\ fuzzy_search(c, {<<>>})

\* a request without a query parameter has been answered with two cards or more
NoQueryAnswered ==
    \E w \in Workers :
        /\ Answered(w, "search")
        /\ hw[w].query = {}
        /\ Len(hw[w].resp.content) >= 2

\* C5: the collection holds one card per id: every entry is stored under the
\* id of its card and no two entries have the same key.
OneCardPerId ==
    \A i, j \in 1..Len(cards) :
        /\ cards[i].key = cards[i].value.id
        /\ cards[i].value.id = cards[j].value.id => i = j

\* the refresh task has stored a file that lists an id twice
DuplicateIdStored ==
    /\ rlog = "applied"
    /\ \E i, j \in 1..Len(file.cards) :
           i # j /\ file.cards[i].id = file.cards[j].id
    /\ cards \in create_card_map(file.cards)

\* the place of a card in the scan of a map
ScanPlace(m, c) == CHOOSE i \in 1..Len(m) : m[i].value = c

\* the answer of a search is in descending score, and cards of equal score
\* are in the order of the scan of the map searched
RankedByScoreThenScan ==
    \A w \in Workers :
        (Answered(w, "search") /\ hw[w].resp.type = "CardList") =>
            LET t == FuzzyText(hw[w].parsed.restrictions)
                out == hw[w].resp.content
            IN  \A i, j \in 1..Len(out) :
                    i < j =>
                        /\ score(out[i], t) >= score(out[j], t)
                        /\ score(out[i], t) = score(out[j], t) =>
                               ScanPlace(hw[w].seen, out[i])
                                   < ScanPlace(hw[w].seen, out[j])

\* C6: results are in descending score with ties in scan order, so that a
\* query has one result order on given collection contents: whatever map the
\* loader builds from the cards of the collection searched, the query lists
\* the cards in the order of this answer.
RankedOrderDeterministic ==
    /\ RankedByScoreThenScan
    /\ \A w \in Workers :
           (Answered(w, "search") /\ hw[w].resp.type = "CardList") =>
               \A m \in create_card_map(Values(hw[w].seen)) :
                   search_all(hw[w].parsed.restrictions, Values(m))
                       = hw[w].resp.content

\* a card satisfies every field present in a partial card pattern
Satisfies(d, p) ==
    /\ p.name = {} \/ d.name \in p.name
    /\ p.description = {}
       \/ contains(to_lowercase(d.description), to_lowercase(Unwrap(p.description)))
    /\ p.type = {} \/ d.type \in p.type
    /\ p.health = {} \/ d.health \in p.health
    /\ p.defense = {} \/ d.defense \in p.defense
    /\ p.power = {} \/ d.power \in p.power
    /\ p.kins = {} \/ Range(Unwrap(p.kins)) \subseteq Range(d.kins)
    /\ p.abilities = {} \/ Range(Unwrap(p.abilities)) \subseteq Range(d.abilities)
    /\ p.functions = {} \/ Range(Unwrap(p.functions)) \subseteq Range(d.functions)
    /\ p.keywords = {}
       \/ \A k \in Range(Unwrap(p.keywords)) :
              \E dk \in Range(d.keywords) :
                  contains(to_lowercase(dk.name), to_lowercase(k.name))

\* the keywords of a card a keyword test for v looks at
KeywordsNamed(c, v) ==
    {k \in Range(c.keywords) : contains(to_lowercase(k.name), to_lowercase(v))}

IsKeywordTest(rs) == Len(rs) = 1 /\ rs[1].kind = "KeywordNameContains"

\* C7: a card whose keyword carries a partial card pattern passes the test
\* for that keyword exactly when another card of the collection satisfies
\* every field of the pattern; with no such card it is left out.
KeywordReferenceMatch ==
    \A w \in Workers :
        (Answered(w, "search") /\ hw[w].parsed.ok
             /\ IsKeywordTest(hw[w].parsed.restrictions)) =>
            \A c \in CardsOf(hw[w].seen) :
                LET ks == KeywordsNamed(c, hw[w].parsed.restrictions[1].text)
                IN  (ks # {} /\ \A k \in ks : k.data # {}
                                   /\ Unwrap(k.data).tag = "CardID") =>
                        (c \in Range(hw[w].resp.content)
                         <=> \E k \in ks, d \in CardsOf(hw[w].seen) :
                                 /\ d.id # c.id
                                 /\ Satisfies(d, Unwrap(k.data).pattern))

\* the keyword test has kept a bearer that another card backs and left out a
\* bearer that satisfies its own pattern and that no other card backs
BearerAloneLeftOut ==
    \E w \in Workers :
        /\ Answered(w, "search")
        /\ hw[w].query = {qKeywordSummon}
        /\ CardsOf(hw[w].seen) = {Hex, Imp}
        /\ hw[w].resp.content = <<Imp>>

\* the cards of a collection that pass a restriction sequence
Matching(rs, coll) == {c \in Range(coll) : matches(c, rs, coll)}

\* restrictions a sequence may be extended with
MoreRestrictions ==
    {Comparison("power", "!=", 5), KeywordNameContains(sSummon),
     SetContains("kins", sBeast), Contains("name", <<"E">>)}

Reverse(rs) == [i \in 1..Len(rs) |-> rs[Len(rs) + 1 - i]]

Without(rs, n) == SubSeq(rs, 1, n - 1) \o SubSeq(rs, n + 1, Len(rs))

\* C8: the cards a search lists are the cards that pass all its restrictions;
\* a restriction more can only take cards away, a restriction less can only
\* add some, and the order of the restrictions does not matter.
AndMonotone ==
    \A w \in Workers :
        (Answered(w, "search") /\ hw[w].parsed.ok) =>
            LET rs == hw[w].parsed.restrictions
                coll == Values(hw[w].seen)
            IN  /\ Range(hw[w].resp.content) = Matching(rs, coll)
                /\ Matching(Reverse(rs), coll) = Matching(rs, coll)
                /\ \A n \in 1..Len(rs) :
                       /\ Matching(rs, coll) \subseteq Matching(Without(rs, n), coll)
                       /\ Matching(rs, coll) \subseteq Matching(<<rs[n]>>, coll)
                /\ \A r \in MoreRestrictions :
                       /\ Matching(Append(rs, r), coll) \subseteq Matching(rs, coll)
                       /\ Matching(<<r>> \o rs, coll) = Matching(Append(rs, r), coll)

\* a search with two restrictions has listed some cards and left out others
TwoRestrictionsNarrow ==
    \E w \in Workers :
        /\ Answered(w, "search")
        /\ hw[w].query = {qCostX}
        /\ hw[w].resp.content # <<>>
        /\ Range(hw[w].resp.content) # CardsOf(hw[w].seen)

ChangeEventuallyApplied ==
    \A v \in ValidFiles :
        (rx > 0 /\ file = v) ~> (file # v \/ cards \in create_card_map(v.cards))

\* the same, for as long as the refresh task is alive
ChangeAppliedWhileAlive ==
    \A v \in ValidFiles :
        (rx > 0 /\ file = v)
            ~> (file # v \/ cards \in create_card_map(v.cards) \/ rpc = "dead")

\* the refresh task, once it holds a parsed card list, stores it: readers do
\* not keep it from the write lock for ever
WriterNotStarved ==
    \A v \in ValidFiles :
        (rpc = "write_wait" /\ rdata = v.cards)
            ~> (cards \in create_card_map(v.cards) /\ rlog = "applied")

====
